---- MODULE Spec2Model ----
(***************************************************************************)
(* A model of walk's DataBinder (databinding.go): the property registry,   *)
(* the validation ledger widget2Property2Error, change-driven validation,  *)
(* and Reset / Submit over dotted field paths resolved by reflection.      *)
(*                                                                         *)
(* Go values are records [k, b, n]: k is the dynamic type, and the number  *)
(* denoted is b * 2^53 + n for integers; a float64 with b = 0 denotes n / 2 *)
(* (n counts halves) and with b = 1 denotes 2^53 + n, n even: the float64  *)
(* grid from 2^53 on.  A float32 is written the same way; of the numbers   *)
(* 2^53 + n in use (n < 2^29) only 2^53 is a float32.  Strings are         *)
(* [k |-> "string", n |-> table index].                                    *)
(***************************************************************************)
EXTENDS Integers, Sequences, FiniteSets, TLC

(***************************************************************************)
(* Bounds of the model.                                                    *)
(***************************************************************************)
\* cap on len(db.properties), which the code only ever appends to
MaxProps == 3

(***************************************************************************)
(* Go values.                                                              *)
(***************************************************************************)
Nil == [k |-> "nil", b |-> 0, n |-> 0]
I64(b, n) == [k |-> "int64", b |-> b, n |-> n]
F64(b, n) == [k |-> "float64", b |-> b, n |-> n]
F32(b, n) == [k |-> "float32", b |-> b, n |-> n]
Str(i) == [k |-> "string", b |-> 0, n |-> i]
ErrVal(i) == [k |-> "error", b |-> 0, n |-> i]

\* float64(v) for an integer v: exact below 2^53, round-half-to-even on the
\* grid of spacing 2 from 2^53 on.
ToFloat64(v) ==
    IF v.b = 0 THEN F64(0, v.n * 2)
    ELSE LET q == v.n \div 2
             r == v.n % 2
         IN  IF r = 0 THEN F64(1, v.n)
             ELSE IF q % 2 = 0 THEN F64(1, 2 * q) ELSE F64(1, 2 * (q + 1))

\* int64(f) rounding down
TruncToInt_Floor(f) ==
    IF f.b = 1 THEN I64(1, f.n)
    ELSE IF f.n >= 0 THEN I64(0, f.n \div 2)
         ELSE I64(0, -(((-f.n) + 1) \div 2))

\* int64(f) for a float64 f: truncation toward zero.
TruncToInt(f) ==
    IF f.b = 1 THEN I64(1, f.n)
    ELSE IF f.n >= 0 THEN I64(0, f.n \div 2)
         ELSE I64(0, -((-f.n) \div 2))

\* float32(f) for a float64 f: small halves are float32 numbers, and the
\* float32 nearest to 2^53 + n is 2^53
ToFloat32(f) == IF f.b = 1 THEN F32(1, 0) ELSE F32(0, f.n)

\* field.SetFloat(f): the float64 converted to the field's kind
SetFloat(field, f) == IF field.k = "float32" THEN ToFloat32(f) ELSE f

NumericKinds == {"int64", "float32", "float64"}
IntKinds == {"int64"}
FloatKinds == {"float32", "float64"}

(***************************************************************************)
(* Results of Reset / Submit.                                              *)
(***************************************************************************)
NoError == "nil"
errValidationFailed == "validation failed"
ErrDataSource == "DataSource must be a pointer to a struct."
ErrNoField == "Struct has no field."
ErrFieldPtr == "Field must be a pointer to a struct."
ErrNilPtr == "Pointer must not be nil."
ErrPtrStruct == "Pointer must point to a struct."
ErrToFloat == "Can't convert to float64."
ErrFromFloat == "Can't convert float64."
ErrReadOnly == "property is read-only"
ErrGet == "error value of Get"
Panic == "panic"

BindingErrors ==
    {ErrDataSource, ErrNoField, ErrFieldPtr, ErrNilPtr, ErrPtrStruct,
     ErrToFloat, ErrFromFloat}

(***************************************************************************)
(* Maps (Go map[K]V): functions with a finite domain.                      *)
(***************************************************************************)
EmptyMap == [x \in {} |-> TRUE]
MapPut(m, key, v) == [x \in (DOMAIN m) \cup {key} |-> IF x = key THEN v ELSE m[x]]
MapDelete(m, key) == [x \in (DOMAIN m) \ {key} |-> m[x]]
MapLen(m) == Cardinality(DOMAIN m)

(***************************************************************************)
(* The controls and their properties (walk.Widget, walk.Property).         *)
(***************************************************************************)
Widgets == {"w1", "w2"}
\* the nil Widget: what property2Widget yields for a property it does not hold
NilWidget == "nil"
Props == {"p1", "p2", "p3", "p4"}
NoHandler == "none"

\* widget.BaseWidget().name2Property: the properties a control declares
name2Property(w) == IF w = "w1" THEN {"p1", "p2"} ELSE {"p3", "p4"}
Owner(p) == IF p \in {"p1", "p2"} THEN "w1" ELSE "w2"

SrcText(path) == [k |-> "string", path |-> path]
SrcNone == [k |-> "nil", path |-> ""]
\* a Source() that is no string: an integer
SrcInt == [k |-> "int", path |-> ""]

\* the declarations of p3 the model is run with: its Source(), whether its
\* Set fails, and the value its control holds
P3Configs ==
    {[source |-> SrcText("S"), readOnly |-> FALSE, val |-> Str(2)],
     [source |-> SrcText("X"), readOnly |-> FALSE, val |-> Str(2)],
     [source |-> SrcText("V.C"), readOnly |-> FALSE, val |-> Str(2)]}

\* declarations of p3 that pair a text or a float64 value with an integer,
\* a float and a string field
FieldConfigs ==
    {[source |-> SrcText("I"), readOnly |-> FALSE, val |-> Str(2)],
     [source |-> SrcText("F"), readOnly |-> FALSE, val |-> F64(1, 2)],
     [source |-> SrcText("G"), readOnly |-> FALSE, val |-> F64(1, 2)],
     [source |-> SrcText("S"), readOnly |-> FALSE, val |-> F64(0, 5)]}

\* declarations of p3 with a Source() that is no path: the empty string and
\* a value that is no string
PathConfigs ==
    {[source |-> SrcText(""), readOnly |-> FALSE, val |-> Str(2)],
     [source |-> SrcInt, readOnly |-> FALSE, val |-> Str(2)]}

\* declarations of p3 whose control holds no value (nil), or an error
ValueConfigs ==
    {[source |-> SrcText("S"), readOnly |-> FALSE, val |-> Nil],
     [source |-> SrcText("S"), readOnly |-> FALSE, val |-> ErrVal(1)]}

\* strings.Split(path, ".") on the paths in use
Split(path) ==
    CASE path = "I" -> <<"I">>
      [] path = "S" -> <<"S">>
      [] path = "X" -> <<"X">>
      [] path = "F" -> <<"F">>
      [] path = "G" -> <<"G">>
      [] path = "A.C" -> <<"A", "C">>
      [] path = "V.C" -> <<"V", "C">>
      [] path = "" -> <<"">>

\* prop.Validator() # nil
HasValidator(p) == p \in {"p1", "p2"}

\* validator.Validate(v): p1 takes numbers >= 0, p2 non-empty strings
Validate(p, v) ==
    IF p = "p1"
    THEN IF v.k \in NumericKinds /\ (v.b = 1 \/ v.n >= 0) THEN NoError ELSE "out of range"
    ELSE IF v.k = "string" /\ v.n # 0 THEN NoError ELSE "required"

(***************************************************************************)
(* The model record behind dataSource, seen through package reflect.       *)
(*   type Model struct { I int64; S string; A *Addr; V Addr;               *)
(*                       F float64; G float32 }                            *)
(*   type Addr  struct { C string }                                        *)
(* A data source is [root, anil, mem]: what the interface holds, whether   *)
(* the pointer field A is nil, and the values of the scalar fields (F and  *)
(* G are 1.5 in every model).                                              *)
(***************************************************************************)
Locs == {<<"I">>, <<"S">>, <<"A", "C">>, <<"V", "C">>, <<"F">>, <<"G">>}

Mem(i, s, c) ==
    [l \in Locs |-> CASE l = <<"I">> -> i
                      [] l = <<"S">> -> s
                      [] l = <<"A", "C">> -> c
                      [] l = <<"V", "C">> -> Str(2)
                      [] l = <<"F">> -> F64(0, 3)
                      [] l = <<"G">> -> F32(0, 3)]

Struct(i, anil, c) == [root |-> "ptr", anil |-> anil, mem |-> Mem(i, Str(2), c)]
Other(root) == [root |-> root, anil |-> TRUE, mem |-> Mem(I64(0, 0), Str(2), Str(0))]

\* NewDataBinder leaves dataSource the nil interface
UntypedNil == Other("untypednil")

\* what the host may hand to SetDataSource
DataSources ==
    {UntypedNil, Other("nonptr"), Other("nilptr"), Other("ptr2int"),
     Struct(I64(1, 1), FALSE, Str(1)),
     Struct(I64(0, 2), FALSE, Str(0)),
     Struct(I64(0, 2), TRUE, Str(0))}

\* a reflect.Value: its Kind, its (element) type and the place it addresses
RV(k, ty, loc) == [k |-> k, ty |-> ty, loc |-> loc]
Invalid == RV("invalid", "", <<>>)

\* reflect.ValueOf(db.dataSource)
ValueOfDataSource(ds) ==
    CASE ds.root = "untypednil" -> Invalid
      [] ds.root = "nonptr" -> RV("struct", "Model", <<>>)
      [] ds.root = "ptr2int" -> RV("ptr", "int", <<>>)
      [] OTHER -> RV("ptr", "Model", <<>>)

\* the Kind of a named type
KindOfType(ty) == IF ty \in {"Model", "Addr"} THEN "struct" ELSE ty

\* s.FieldByName(name) for a struct s
FieldByName(s, name) ==
    CASE s.ty = "Model" /\ name = "I" -> RV("int64", "int64", s.loc \o <<name>>)
      [] s.ty = "Model" /\ name = "S" -> RV("string", "string", s.loc \o <<name>>)
      [] s.ty = "Model" /\ name = "A" -> RV("ptr", "Addr", s.loc \o <<name>>)
      [] s.ty = "Model" /\ name = "V" -> RV("struct", "Addr", s.loc \o <<name>>)
      [] s.ty = "Model" /\ name = "F" -> RV("float64", "float64", s.loc \o <<name>>)
      [] s.ty = "Model" /\ name = "G" -> RV("float32", "float32", s.loc \o <<name>>)
      [] s.ty = "Addr" /\ name = "C" -> RV("string", "string", s.loc \o <<name>>)
      [] OTHER -> Invalid

\* v.IsNil() panics unless v is a chan, func, interface, map, pointer or slice
CanBeNil(v) == v.k \in {"ptr"}

\* IsNil that takes every pointer for a live one
IsNil_Never(ds, v) == FALSE

\* v.IsNil() for a pointer
IsNil(ds, v) ==
    IF v.loc = <<>> THEN ds.root = "nilptr" ELSE ds.anil

\* reflect.Indirect(v): the pointee of a pointer, v itself otherwise
Indirect(v) == IF v.k = "ptr" THEN RV(KindOfType(v.ty), v.ty, v.loc) ELSE v

\* field.Interface() of a scalar field
Interface(ds, field) == ds.mem[field.loc]

(***************************************************************************)
(* State.                                                                  *)
(***************************************************************************)
VARIABLES
    dataSource,              \* db.dataSource and the record it points to
    boundWidgets,            \* db.boundWidgets
    properties,              \* db.properties
    property2Widget,         \* db.property2Widget
    property2ChangedHandle,  \* db.property2ChangedHandle
    widget2Property2Error,   \* db.widget2Property2Error, the ledger
    errorPresenter,          \* db.errorPresenter # nil
    p3,                      \* how p3 is declared, fixed for a run
    value,                   \* what each property's Get() returns
    handlers,                \* prop.Changed(): the handler slots of each property
    last,                    \* the last operation: its result, its validation
                             \* runs and its writes to the model
    preReset                 \* the model as it was before a Reset that returned
                             \* nil, while that Reset, or it and the Submit right
                             \* after it, are the last operations

vars ==
    <<dataSource, boundWidgets, properties, property2Widget,
      property2ChangedHandle, widget2Property2Error, errorPresenter, p3,
      value, handlers, last, preReset>>

\* prop.Source()
Source(p) ==
    CASE p = "p1" -> SrcText("I")
      [] p = "p2" -> SrcText("A.C")
      [] p = "p3" -> p3.source
      [] p = "p4" -> SrcNone

\* the values the user can give a property through its control
UserValues(p) ==
    CASE p = "p1" -> {F64(0, 5), F64(0, -5)}
      [] p = "p2" -> {Str(0), Str(1)}
      [] p = "p3" -> {p3.val}
      [] p = "p4" -> {Str(2)}

\* _, ok := prop.Source().(string)
IsTextual(p) == Source(p).k = "string"

\* the error of prop.Set(v)
SetError(p, v) == IF p = "p3" /\ p3.readOnly THEN ErrReadOnly ELSE NoError

\* the record of an operation; at is the index in db.properties of the last
\* property forEach began to resolve, 0 if it began none
Op(name, ret, calls, writes) ==
    [op |-> name, ret |-> ret, calls |-> calls, writes |-> writes, at |-> 0]

(***************************************************************************)
(* DataBinder.CanSubmit and DataBinder.validateProperty.                   *)
(***************************************************************************)
CanSubmit_Always(w2p2e) == TRUE
CanSubmit(w2p2e) == MapLen(w2p2e) = 0

\* One run of validateProperty(prop, widget) on the ledger w2p2e, with v the
\* property's value and ep whether a presenter is registered.  The result is
\* the ledger after the run and the run's record: the validator's verdict,
\* whether the ledger held (widget, prop) before, the calls of PresentError
\* and of canSubmitChangedPublisher.Publish, and CanSubmit() before and after.
Run(prop, widget, validated, err, had, ep, presented, published, before, after) ==
    [prop |-> prop, widget |-> widget, validated |-> validated, err |-> err,
     had |-> had, ep |-> ep, presented |-> presented, published |-> published,
     emptyBefore |-> before, emptyAfter |-> after]

\* validateProperty marking eligibility changed on every failure
validateProperty_AlwaysChanged(w2p2e, prop, widget, v, ep) ==
    LET has == widget \in DOMAIN w2p2e
        had == has /\ prop \in DOMAIN w2p2e[widget]
        err == Validate(prop, v)
        before == CanSubmit(w2p2e)
    IN  IF ~HasValidator(prop)
        THEN [w2p2e |-> w2p2e,
              run |-> Run(prop, widget, FALSE, NoError, had, ep, 0, 0, before, before)]
        ELSE IF err # NoError
        THEN LET changed == TRUE
                 prop2Err == IF has THEN w2p2e[widget] ELSE EmptyMap
                 new == MapPut(w2p2e, widget, MapPut(prop2Err, prop, err))
             IN  [w2p2e |-> new,
                  run |-> Run(prop, widget, TRUE, err, had, ep,
                              IF ep THEN 1 ELSE 0, IF changed THEN 1 ELSE 0,
                              before, CanSubmit(new))]
        ELSE IF ~has
        THEN [w2p2e |-> w2p2e,
              run |-> Run(prop, widget, TRUE, err, had, ep, 0, 0, before, before)]
        ELSE LET prop2Err == MapDelete(w2p2e[widget], prop)
                 new == IF MapLen(prop2Err) = 0
                        THEN MapDelete(w2p2e, widget)
                        ELSE MapPut(w2p2e, widget, prop2Err)
                 changed == MapLen(prop2Err) = 0 /\ MapLen(new) = 0
             IN  [w2p2e |-> new,
                  run |-> Run(prop, widget, TRUE, err, had, ep,
                              IF ep THEN 1 ELSE 0, IF changed THEN 1 ELSE 0,
                              before, CanSubmit(new))]

\* validateProperty leaving a control with no failing property in the ledger
validateProperty_KeepsKey(w2p2e, prop, widget, v, ep) ==
    LET has == widget \in DOMAIN w2p2e
        had == has /\ prop \in DOMAIN w2p2e[widget]
        err == Validate(prop, v)
        before == CanSubmit(w2p2e)
    IN  IF ~HasValidator(prop)
        THEN [w2p2e |-> w2p2e,
              run |-> Run(prop, widget, FALSE, NoError, had, ep, 0, 0, before, before)]
        ELSE IF err # NoError
        THEN LET changed == MapLen(w2p2e) = 0
                 prop2Err == IF has THEN w2p2e[widget] ELSE EmptyMap
                 new == MapPut(w2p2e, widget, MapPut(prop2Err, prop, err))
             IN  [w2p2e |-> new,
                  run |-> Run(prop, widget, TRUE, err, had, ep,
                              IF ep THEN 1 ELSE 0, IF changed THEN 1 ELSE 0,
                              before, CanSubmit(new))]
        ELSE IF ~has
        THEN [w2p2e |-> w2p2e,
              run |-> Run(prop, widget, TRUE, err, had, ep, 0, 0, before, before)]
        ELSE LET prop2Err == MapDelete(w2p2e[widget], prop)
                 new == MapPut(w2p2e, widget, prop2Err)
                 changed == MapLen(prop2Err) = 0 /\ MapLen(new) = 0
             IN  [w2p2e |-> new,
                  run |-> Run(prop, widget, TRUE, err, had, ep,
                              IF ep THEN 1 ELSE 0, IF changed THEN 1 ELSE 0,
                              before, CanSubmit(new))]

\* validateProperty telling the presenter before it looks for a validator
validateProperty_PresentsFirst(w2p2e, prop, widget, v, ep) ==
    LET has == widget \in DOMAIN w2p2e
        had == has /\ prop \in DOMAIN w2p2e[widget]
        err == Validate(prop, v)
        before == CanSubmit(w2p2e)
    IN  IF ~HasValidator(prop)
        THEN [w2p2e |-> w2p2e,
              run |-> Run(prop, widget, FALSE, NoError, had, ep,
                          IF ep THEN 1 ELSE 0, 0, before, before)]
        ELSE IF err # NoError
        THEN LET changed == MapLen(w2p2e) = 0
                 prop2Err == IF has THEN w2p2e[widget] ELSE EmptyMap
                 new == MapPut(w2p2e, widget, MapPut(prop2Err, prop, err))
             IN  [w2p2e |-> new,
                  run |-> Run(prop, widget, TRUE, err, had, ep,
                              IF ep THEN 1 ELSE 0, IF changed THEN 1 ELSE 0,
                              before, CanSubmit(new))]
        ELSE IF ~has
        THEN [w2p2e |-> w2p2e,
              run |-> Run(prop, widget, TRUE, err, had, ep, 0, 0, before, before)]
        ELSE LET prop2Err == MapDelete(w2p2e[widget], prop)
                 new == IF MapLen(prop2Err) = 0
                        THEN MapDelete(w2p2e, widget)
                        ELSE MapPut(w2p2e, widget, prop2Err)
                 changed == MapLen(prop2Err) = 0 /\ MapLen(new) = 0
             IN  [w2p2e |-> new,
                  run |-> Run(prop, widget, TRUE, err, had, ep,
                              IF ep THEN 1 ELSE 0, IF changed THEN 1 ELSE 0,
                              before, CanSubmit(new))]

validateProperty(w2p2e, prop, widget, v, ep) ==
    LET has == widget \in DOMAIN w2p2e
        had == has /\ prop \in DOMAIN w2p2e[widget]
        err == Validate(prop, v)
        before == CanSubmit(w2p2e)
    IN  IF ~HasValidator(prop)
        THEN [w2p2e |-> w2p2e,
              run |-> Run(prop, widget, FALSE, NoError, had, ep, 0, 0, before, before)]
        ELSE IF err # NoError
        THEN LET changed == MapLen(w2p2e) = 0
                 prop2Err == IF has THEN w2p2e[widget] ELSE EmptyMap
                 new == MapPut(w2p2e, widget, MapPut(prop2Err, prop, err))
             IN  [w2p2e |-> new,
                  run |-> Run(prop, widget, TRUE, err, had, ep,
                              IF ep THEN 1 ELSE 0, IF changed THEN 1 ELSE 0,
                              before, CanSubmit(new))]
        ELSE IF ~has
        THEN [w2p2e |-> w2p2e,
              run |-> Run(prop, widget, TRUE, err, had, ep, 0, 0, before, before)]
        ELSE LET prop2Err == MapDelete(w2p2e[widget], prop)
                 new == IF MapLen(prop2Err) = 0
                        THEN MapDelete(w2p2e, widget)
                        ELSE MapPut(w2p2e, widget, prop2Err)
                 changed == MapLen(prop2Err) = 0 /\ MapLen(new) = 0
             IN  [w2p2e |-> new,
                  run |-> Run(prop, widget, TRUE, err, had, ep,
                              IF ep THEN 1 ELSE 0, IF changed THEN 1 ELSE 0,
                              before, CanSubmit(new))]

(***************************************************************************)
(* Event: the handler slots of a property's Changed() event.  A slot holds *)
(* the control its handler validates for; old marks a handler attached     *)
(* before the latest SetBoundWidgets call.                                 *)
(***************************************************************************)
NoSlot == [w |-> NoHandler, old |-> FALSE]
Slot(w) == [w |-> w, old |-> FALSE]

\* Event.Attach: the first free slot, or a new one; the handle is its index
AttachHandle(hs) ==
    IF \E i \in 1..Len(hs) : hs[i] = NoSlot
    THEN CHOOSE i \in 1..Len(hs) : hs[i] = NoSlot /\ \A j \in 1..(i - 1) : hs[j] # NoSlot
    ELSE Len(hs) + 1

Attach(hs, w) ==
    IF AttachHandle(hs) <= Len(hs)
    THEN [hs EXCEPT ![AttachHandle(hs)] = Slot(w)]
    ELSE Append(hs, Slot(w))

\* Event.Detach(handle)
Detach(hs, handle) == [hs EXCEPT ![handle] = NoSlot]

\* the record of a run r of validateProperty on the ledger w2p2e, with
\* whether the run left the ledger as it was
Observed(w2p2e, r) == r.run @@ [same |-> r.w2p2e = w2p2e]

\* Publish on the Changed() event of prop: every attached handler runs
\* validateProperty, in slot order
RECURSIVE PublishChanged(_, _, _, _, _, _)
PublishChanged(w2p2e, calls, prop, v, ep, i) ==
    IF i > Len(handlers[prop]) THEN [w2p2e |-> w2p2e, calls |-> calls]
    ELSE IF handlers[prop][i] = NoSlot
    THEN PublishChanged(w2p2e, calls, prop, v, ep, i + 1)
    ELSE LET r == validateProperty(w2p2e, prop, handlers[prop][i].w, v, ep)
         IN  PublishChanged(r.w2p2e, Append(calls, Observed(w2p2e, r)), prop, v, ep, i + 1)

(***************************************************************************)
(* DataBinder.SetBoundWidgets.                                             *)
(***************************************************************************)
\* the orders in which range may walk the map name2Property of control w
Orders(w) ==
    {o \in [1..Cardinality(name2Property(w)) -> name2Property(w)] :
        \A i, j \in DOMAIN o : i # j => o[i] # o[j]}

\* lines 50-52: every handle the binder holds is detached; the handlers
\* that stay attached are from now on those of an earlier call
DetachAll(hs, handles) ==
    [p \in Props |->
        LET d == IF p \in DOMAIN handles THEN Detach(hs[p], handles[p]) ELSE hs[p]
        IN  [i \in 1..Len(d) |-> IF d[i] = NoSlot THEN NoSlot ELSE [d[i] EXCEPT !.old = TRUE]]]

\* lines 63-75 for one property
RegisterProperty(st, widget, prop) ==
    IF ~IsTextual(prop) THEN st
    ELSE [properties |-> Append(st.properties, prop),
          property2Widget |-> MapPut(st.property2Widget, prop, widget),
          property2ChangedHandle |->
              MapPut(st.property2ChangedHandle, prop, AttachHandle(st.handlers[prop])),
          handlers |-> [st.handlers EXCEPT ![prop] = Attach(st.handlers[prop], widget)]]

\* lines 60-76: the controls in order, the properties of control ws[i] in
\* the order ords[i]
RECURSIVE RegisterAll(_, _, _, _, _)
RegisterAll(st, ws, ords, i, j) ==
    IF i > Len(ws) THEN st
    ELSE IF j > Len(ords[i]) THEN RegisterAll(st, ws, ords, i + 1, 1)
    ELSE RegisterAll(RegisterProperty(st, ws[i], ords[i][j]), ws, ords, i, j + 1)

\* the control lists handed to SetBoundWidgets: as long as there are
\* controls, a control possibly twice
WidgetLists == UNION {[1..n -> Widgets] : n \in 0..Cardinality(Widgets)}

AllOrders == UNION {Orders(w) : w \in Widgets}
OrdersOf(ws) ==
    {ords \in [1..Len(ws) -> AllOrders] : \A i \in 1..Len(ws) : ords[i] \in Orders(ws[i])}

NumTextual(ws) ==
    LET RECURSIVE Sum(_)
        Sum(i) == IF i > Len(ws) THEN 0
                  ELSE Cardinality({p \in name2Property(ws[i]) : IsTextual(p)}) + Sum(i + 1)
    IN  Sum(1)

SetBoundWidgets ==
    \E ws \in WidgetLists :
      /\ Len(properties) + NumTextual(ws) <= MaxProps
      /\ \E ords \in OrdersOf(ws) :
        /\ LET st == RegisterAll(
                        [properties |-> properties,
                         property2Widget |-> EmptyMap,
                         property2ChangedHandle |-> EmptyMap,
                         handlers |-> DetachAll(handlers, property2ChangedHandle)],
                        ws, ords, 1, 1)
           IN  /\ boundWidgets' = ws
               /\ properties' = st.properties
               /\ property2Widget' = st.property2Widget
               /\ property2ChangedHandle' = st.property2ChangedHandle
               /\ handlers' = st.handlers
        /\ widget2Property2Error' = EmptyMap
        /\ last' = Op("SetBoundWidgets", NoError, <<>>, <<>>)
        /\ preReset' = UntypedNil
        /\ UNCHANGED <<dataSource, errorPresenter, p3, value>>

(***************************************************************************)
(* The setters, and a change of a property's value by its control.         *)
(***************************************************************************)
SetDataSource ==
    \E ds \in DataSources :
        /\ dataSource' = ds
        /\ last' = Op("SetDataSource", NoError, <<>>, <<>>)
        /\ preReset' = UntypedNil
        /\ UNCHANGED <<boundWidgets, properties, property2Widget,
                       property2ChangedHandle, widget2Property2Error,
                       errorPresenter, p3, value, handlers>>

SetErrorPresenter ==
    \E ep \in BOOLEAN :
        /\ errorPresenter' = ep
        /\ last' = Op("SetErrorPresenter", NoError, <<>>, <<>>)
        /\ preReset' = UntypedNil
        /\ UNCHANGED <<dataSource, boundWidgets, properties, property2Widget,
                       property2ChangedHandle, widget2Property2Error, p3, value,
                       handlers>>

PropertyChanged ==
    \E p \in Props : \E v \in UserValues(p) :
        \E r \in {PublishChanged(widget2Property2Error, <<>>, p, v, errorPresenter, 1)} :
            /\ value' = [value EXCEPT ![p] = v]
            /\ widget2Property2Error' = r.w2p2e
            /\ last' = Op("PropertyChanged", NoError, r.calls, <<>>)
            /\ preReset' = UntypedNil
            /\ UNCHANGED <<dataSource, boundWidgets, properties, property2Widget,
                           property2ChangedHandle, errorPresenter, p3, handlers>>

(***************************************************************************)
(* DataBinder.forEach with the two callbacks of Reset and Submit.  The     *)
(* traversal works on [ds, value, w2p2e, calls, writes, ret, at]: the      *)
(* model, the property values, the ledger, the validation runs and the     *)
(* model writes so far, the error that ended it (NoError while it goes    *)
(* on), and the index of the property it is at.                            *)
(***************************************************************************)
Fail(st, err) == [st EXCEPT !.ret = err]

\* db.property2Widget[prop]: the nil Widget for a property the map lacks
WidgetOf(prop) ==
    IF prop \in DOMAIN property2Widget THEN property2Widget[prop] ELSE NilWidget

\* the callback of Reset, lines 137-194
ResetField(st, prop, field) ==
    LET v == st.value[prop]
        fv == Interface(st.ds, field)
        new == IF v.k = "float64"
               THEN IF fv.k \in IntKinds THEN ToFloat64(fv) ELSE F64(fv.b, fv.n)
               ELSE fv
    IN  IF v.k = "float64" /\ fv.k \notin NumericKinds THEN Fail(st, ErrToFloat)
        ELSE IF SetError(prop, new) # NoError THEN Fail(st, SetError(prop, new))
        ELSE LET r == validateProperty(st.w2p2e, prop, WidgetOf(prop), new, errorPresenter)
             IN  [st EXCEPT !.value[prop] = new,
                            !.w2p2e = r.w2p2e,
                            !.calls = Append(st.calls, Observed(st.w2p2e, r))]

\* the callback of Submit, lines 202-234
Write(st, prop, field, v, stored) ==
    [st EXCEPT !.ds.mem[field.loc] = stored,
               !.writes = Append(st.writes,
                   [prop |-> prop, loc |-> field.loc, from |-> v, to |-> stored])]

\* Submit passing over an error value as it passes over nil
SubmitField_ErrorSkipped(st, prop, field) ==
    LET v == st.value[prop]
    IN  IF v.k = "nil" THEN st
        ELSE IF v.k = "error" THEN st
        ELSE IF v.k = "float64"
        THEN IF field.k \in FloatKinds THEN Write(st, prop, field, v, SetFloat(field, v))
             ELSE IF field.k \in IntKinds THEN Write(st, prop, field, v, TruncToInt(v))
             ELSE Fail(st, ErrFromFloat)
        ELSE IF v.k # field.ty THEN Fail(st, Panic)
        ELSE Write(st, prop, field, v, v)

SubmitField(st, prop, field) ==
    LET v == st.value[prop]
    IN  IF v.k = "nil" THEN st
        ELSE IF v.k = "error" THEN Fail(st, ErrGet)
        ELSE IF v.k = "float64"
        THEN IF field.k \in FloatKinds THEN Write(st, prop, field, v, SetFloat(field, v))
             ELSE IF field.k \in IntKinds THEN Write(st, prop, field, v, TruncToInt(v))
             ELSE Fail(st, ErrFromFloat)
        ELSE IF v.k # field.ty THEN Fail(st, Panic)
        ELSE Write(st, prop, field, v, v)

Callback(mode, st, prop, field) ==
    IF mode = "Reset" THEN ResetField(st, prop, field) ELSE SubmitField(st, prop, field)

\* lines 259-284: the walk along the names of one path; p and s are the
\* loop's pointer and struct
RECURSIVE Walk(_, _, _, _, _, _, _)
Walk(mode, st, prop, names, i, p, s) ==
    IF i > Len(names) THEN st
    ELSE
      LET field == FieldByName(s, names[i])
          isLast == i = Len(names)
          st1 == IF isLast THEN Callback(mode, st, prop, field) ELSE st
          p1 == IF isLast THEN p ELSE field
      IN  IF field = Invalid THEN Fail(st, ErrNoField)
          ELSE IF isLast /\ st1.ret # NoError THEN st1
          ELSE IF ~isLast /\ p.k # "ptr" THEN Fail(st, ErrFieldPtr)
          ELSE IF ~CanBeNil(p1) THEN Fail(st1, Panic)
          ELSE IF IsNil(st1.ds, p1) THEN Fail(st1, ErrNilPtr)
          ELSE IF Indirect(p1).k # "struct" THEN Fail(st1, ErrPtrStruct)
          ELSE Walk(mode, st1, prop, names, i + 1, p1, Indirect(p1))

\* lines 252-285: the registered properties in order, to the first error
RECURSIVE Visit(_, _, _, _, _)
Visit(mode, st, k, p, s) ==
    IF k > Len(properties) THEN st
    ELSE LET prop == properties[k]
             st1 == Walk(mode, [st EXCEPT !.at = k], prop,
                         Split(Source(prop).path), 1, p, s)
         IN  IF st1.ret # NoError THEN st1 ELSE Visit(mode, st1, k + 1, p, s)

\* lines 237-288
forEach(mode, st) ==
    LET p == ValueOfDataSource(st.ds)
    IN  IF p = Invalid THEN Fail(st, Panic)
        ELSE IF p.k # "ptr" THEN Fail(st, ErrDataSource)
        ELSE IF IsNil(st.ds, p) THEN st
        ELSE IF Indirect(p).k # "struct" THEN Fail(st, ErrDataSource)
        ELSE Visit(mode, st, 1, p, Indirect(p))

Start ==
    [ds |-> dataSource, value |-> value, w2p2e |-> widget2Property2Error,
     calls |-> <<>>, writes |-> <<>>, ret |-> NoError, at |-> 0]

(***************************************************************************)
(* DataBinder.Reset and DataBinder.Submit.                                 *)
(***************************************************************************)
ResetResult == forEach("Reset", Start)

SubmitResult ==
    IF ~CanSubmit(widget2Property2Error) THEN Fail(Start, errValidationFailed)
    ELSE forEach("Submit", Start)

Reset ==
    \E st \in {ResetResult} :
        /\ dataSource' = st.ds
        /\ value' = st.value
        /\ widget2Property2Error' = st.w2p2e
        /\ last' = [Op("Reset", st.ret, st.calls, st.writes) EXCEPT !.at = st.at]
        /\ preReset' = IF st.ret = NoError THEN dataSource ELSE UntypedNil
        /\ UNCHANGED <<boundWidgets, properties, property2Widget,
                       property2ChangedHandle, errorPresenter, p3, handlers>>

Submit ==
    \E st \in {SubmitResult} :
        /\ dataSource' = st.ds
        /\ value' = st.value
        /\ widget2Property2Error' = st.w2p2e
        /\ last' = [Op("Submit", st.ret, st.calls, st.writes) EXCEPT !.at = st.at]
        /\ preReset' = IF last.op = "Reset" THEN preReset ELSE UntypedNil
        /\ UNCHANGED <<boundWidgets, properties, property2Widget,
                       property2ChangedHandle, errorPresenter, p3, handlers>>

(***************************************************************************)
(* The binder after NewDataBinder, with the controls as the host built     *)
(* them; a panic ends the program.                                         *)
(***************************************************************************)
InitialValues ==
    [p \in Props |-> CASE p = "p1" -> F64(0, 5)
                       [] p = "p2" -> Str(1)
                       [] p = "p3" -> p3.val
                       [] OTHER -> Str(2)]

Init ==
    /\ dataSource = UntypedNil
    /\ boundWidgets = <<>>
    /\ properties = <<>>
    /\ property2Widget = EmptyMap
    /\ property2ChangedHandle = EmptyMap
    /\ widget2Property2Error = EmptyMap
    /\ errorPresenter = FALSE
    /\ p3 \in P3Configs
    /\ value = InitialValues
    /\ handlers = [p \in Props |-> <<>>]
    /\ last = Op("NewDataBinder", NoError, <<>>, <<>>)
    /\ preReset = UntypedNil

Running == last.ret # Panic

Next ==
    \/ Running /\ SetDataSource
    \/ Running /\ SetBoundWidgets
    \/ Running /\ SetErrorPresenter
    \/ Running /\ PropertyChanged
    \/ Running /\ Reset
    \/ Running /\ Submit

Spec == Init /\ [][Next]_vars

\* the same binder with p3 declared over a field of each kind
FieldInit ==
    /\ dataSource = UntypedNil
    /\ boundWidgets = <<>>
    /\ properties = <<>>
    /\ property2Widget = EmptyMap
    /\ property2ChangedHandle = EmptyMap
    /\ widget2Property2Error = EmptyMap
    /\ errorPresenter = FALSE
    /\ p3 \in FieldConfigs
    /\ value = InitialValues
    /\ handlers = [p \in Props |-> <<>>]
    /\ last = Op("NewDataBinder", NoError, <<>>, <<>>)
    /\ preReset = UntypedNil

FieldSpec == FieldInit /\ [][Next]_vars

\* the same binder with p3 declared with no path
PathInit ==
    /\ dataSource = UntypedNil
    /\ boundWidgets = <<>>
    /\ properties = <<>>
    /\ property2Widget = EmptyMap
    /\ property2ChangedHandle = EmptyMap
    /\ widget2Property2Error = EmptyMap
    /\ errorPresenter = FALSE
    /\ p3 \in PathConfigs
    /\ value = InitialValues
    /\ handlers = [p \in Props |-> <<>>]
    /\ last = Op("NewDataBinder", NoError, <<>>, <<>>)
    /\ preReset = UntypedNil

PathSpec == PathInit /\ [][Next]_vars

\* the same binder with p3 holding nil or an error
ValueInit ==
    /\ dataSource = UntypedNil
    /\ boundWidgets = <<>>
    /\ properties = <<>>
    /\ property2Widget = EmptyMap
    /\ property2ChangedHandle = EmptyMap
    /\ widget2Property2Error = EmptyMap
    /\ errorPresenter = FALSE
    /\ p3 \in ValueConfigs
    /\ value = InitialValues
    /\ handlers = [p \in Props |-> <<>>]
    /\ last = Op("NewDataBinder", NoError, <<>>, <<>>)
    /\ preReset = UntypedNil

ValueSpec == ValueInit /\ [][Next]_vars

(***************************************************************************)
(* The claims.                                                             *)
(***************************************************************************)
Range(seq) == {seq[i] : i \in DOMAIN seq}
Count(seq, x) == Cardinality({i \in DOMAIN seq : seq[i] = x})
HasError(w2p2e) == \E w \in DOMAIN w2p2e : DOMAIN w2p2e[w] # {}
InLedger(w, p) == w \in DOMAIN widget2Property2Error /\ p \in DOMAIN widget2Property2Error[w]
Rejected(p) == Validate(p, value[p]) # NoError
Validated == {p \in Range(properties) : HasValidator(p)}

\* C1: a Submit called while the ledger holds an error returns
\* errValidationFailed and writes nothing to the model, whatever the model
\* and the property values are.
C1_SubmitGate ==
    [][(last'.op = "Submit" /\ HasError(widget2Property2Error))
         => /\ last'.ret = errValidationFailed
            /\ last'.writes = <<>>
            /\ dataSource' = dataSource]_vars

\* A Submit refused at the gate with a model that is no pointer.
C1_Witness ==
    /\ last.op = "Submit"
    /\ last.ret = errValidationFailed
    /\ HasError(widget2Property2Error)
    /\ dataSource.root = "nonptr"

\* C2: every step that changes CanSubmit() publishes the eligibility
\* notification in that step.
C2_EveryToggleNotifies ==
    [][CanSubmit(widget2Property2Error') # CanSubmit(widget2Property2Error)
         => \E i \in DOMAIN last'.calls : last'.calls[i].published > 0]_vars

\* C3: a run of validateProperty publishes the eligibility notification
\* once if CanSubmit() after the run differs from CanSubmit() before it,
\* and not at all otherwise.
C3_PublishOnEdge ==
    \A i \in DOMAIN last.calls :
        last.calls[i].published =
            IF last.calls[i].emptyBefore # last.calls[i].emptyAfter THEN 1 ELSE 0

\* One operation with a run that cleared an error and left others in the
\* ledger, and a run that recorded a failure in a ledger already non-empty.
C3_Witness ==
    /\ \E i \in DOMAIN last.calls :
          /\ last.calls[i].had /\ last.calls[i].err = NoError
          /\ ~last.calls[i].emptyAfter /\ last.calls[i].published = 0
    /\ \E j \in DOMAIN last.calls :
          /\ last.calls[j].err # NoError /\ ~last.calls[j].emptyBefore
          /\ last.calls[j].published = 0

\* C4: the registry holds the textual properties of the controls last
\* handed to SetBoundWidgets, once for each time their control is listed,
\* and nothing else.
C4_RegistryIsTheSession ==
    \A p \in Props :
        Count(properties, p) =
            IF IsTextual(p) THEN Count(boundWidgets, Owner(p)) ELSE 0

\* C5: no handler attached before the latest SetBoundWidgets call is still
\* attached, so a property change runs validateProperty only for controls
\* of the current list.
C5_OldListenersDetached ==
    /\ \A p \in Props : \A i \in DOMAIN handlers[p] : ~handlers[p][i].old
    /\ last.op = "PropertyChanged"
         => \A i \in DOMAIN last.calls : last.calls[i].widget \in Range(boundWidgets)

\* C6: the ledger maps no control to an empty set of errors.
C6_NoEmptyErrorSet ==
    \A w \in DOMAIN widget2Property2Error : DOMAIN widget2Property2Error[w] # {}

\* A run in which the last failing property of a control passed, and the
\* control is out of the ledger.
C6_Witness ==
    \E i \in DOMAIN last.calls :
        /\ last.calls[i].had /\ last.calls[i].err = NoError
        /\ last.calls[i].widget \notin DOMAIN widget2Property2Error
        /\ last.calls[i].widget \in Widgets

\* C7: with a presenter registered, every validation run of a property
\* that has a validator calls PresentError once.
C7_PresenterEveryRun ==
    \A i \in DOMAIN last.calls :
        (last.calls[i].ep /\ last.calls[i].validated) => last.calls[i].presented = 1

\* C8: after a Reset that returned nil and the Submit right after it, with
\* every validator passing, the model is what it was before the Reset.
C8_ResetSubmitRoundTrip ==
    (/\ last.op = "Submit"
     /\ preReset # UntypedNil
     /\ \A p \in Validated : ~Rejected(p))
        => dataSource = preReset

\* C9: after a Reset that returned nil, the ledger holds (control, property)
\* exactly for the registered properties whose validator rejects their
\* value, and CanSubmit() tells whether there is none.
C9_LedgerAfterReset ==
    (last.op = "Reset" /\ last.ret = NoError)
        => /\ \A p \in Validated : InLedger(Owner(p), p) <=> Rejected(p)
           /\ CanSubmit(widget2Property2Error) <=> \A p \in Validated : ~Rejected(p)

\* C10: every value Submit writes to the model comes from a property
\* whose validator, if it has one, accepts that value.
C10_SubmitWritesValidated ==
    last.op = "Submit"
        => \A i \in DOMAIN last.writes :
              HasValidator(last.writes[i].prop)
                  => Validate(last.writes[i].prop, last.writes[i].from) = NoError

\* the field of the model record that the first segment of p's path names
FirstField(p) == FieldByName(RV("struct", "Model", <<>>), Split(Source(p).path)[1])

\* p's path has two or more segments and its first one names a field that
\* is no pointer
NonReferenceSegment(p) ==
    /\ Len(Split(Source(p).path)) >= 2
    /\ FirstField(p) # Invalid
    /\ FirstField(p).k # "ptr"

\* C11: when Reset or Submit comes to a property whose path goes through a
\* field that is no pointer to a record, it stops there and returns a
\* BindingError.
C11_NonReferenceSegment ==
    last.op \in {"Reset", "Submit"}
        => \A k \in 1..last.at :
              NonReferenceSegment(properties[k])
                  => k = last.at /\ last.ret \in BindingErrors

\* p's path goes through the pointer field A of the model record
ThroughA(p) == Len(Split(Source(p).path)) >= 2 /\ Split(Source(p).path)[1] = "A"

\* C12: when the model's pointer field A is nil, a Reset or Submit that
\* comes to a property bound to "A.C" stops there with "Pointer must not be
\* nil.": the property's value and the field are left as they were, and
\* no validation runs for the property.
C12_NilReference ==
    [][(last'.op \in {"Reset", "Submit"} /\ dataSource.anil)
         => \A k \in 1..last'.at :
               ThroughA(properties[k])
                   => /\ k = last'.at
                      /\ last'.ret = ErrNilPtr
                      /\ value'[properties[k]] = value[properties[k]]
                      /\ dataSource'.mem[<<"A", "C">>] = dataSource.mem[<<"A", "C">>]
                      /\ \A i \in DOMAIN last'.calls : last'.calls[i].prop # properties[k]
                      /\ \A i \in DOMAIN last'.writes : last'.writes[i].prop # properties[k]]_vars

\* A Submit that wrote the field of the first property and stopped at the
\* second one, bound to "A.C", on a model whose A is nil.
C12_Witness ==
    /\ last.op = "Submit"
    /\ last.ret = ErrNilPtr
    /\ last.at = 2
    /\ ThroughA(properties[2])
    /\ dataSource.root = "ptr" /\ dataSource.anil
    /\ Len(last.writes) = 1

\* the field of the model record that p's path leads to
FieldOf(p) ==
    LET names == Split(Source(p).path)
    IN  IF Len(names) = 1 THEN FirstField(p)
        ELSE FieldByName(Indirect(FirstField(p)), names[2])

\* p's value is neither nil, nor an error, nor a float64, and its type is
\* not the type of the field p is bound to
NotAssignable(p) ==
    /\ value[p].k \notin {"nil", "error", "float64"}
    /\ FieldOf(p) # Invalid
    /\ value[p].k # FieldOf(p).ty

\* C13: when Submit comes to a property whose value cannot be assigned to
\* its field, it stops there, returns a BindingError and does not write
\* the field.
C13_NotAssignableIsError ==
    last.op = "Submit"
        => \A k \in 1..last.at :
              NotAssignable(properties[k])
                  => /\ k = last.at
                     /\ last.ret \in BindingErrors
                     /\ \A i \in DOMAIN last.writes : last.writes[i].prop # properties[k]

\* C14: a run of validateProperty for a property with no validator leaves
\* the ledger as it was, calls no presenter and publishes nothing.
C14_NoValidatorNoEffect ==
    \A i \in DOMAIN last.calls :
        ~HasValidator(last.calls[i].prop)
            => /\ last.calls[i].same
               /\ last.calls[i].presented = 0
               /\ last.calls[i].published = 0

\* A run for a property with no validator, with a presenter registered and
\* errors in the ledger.
C14_Witness ==
    \E i \in DOMAIN last.calls :
        /\ ~HasValidator(last.calls[i].prop)
        /\ last.calls[i].ep
        /\ ~last.calls[i].emptyBefore
        /\ HasError(widget2Property2Error)

Abs(x) == IF x < 0 THEN -x ELSE x

\* the integer t is the float64 v without its fraction
IsTruncation(v, t) ==
    IF v.b = 1 THEN t.b = 1 /\ t.n = v.n
    ELSE /\ t.b = 0
         /\ t.n * v.n >= 0
         /\ 2 * Abs(t.n) <= Abs(v.n)
         /\ Abs(v.n) < 2 * Abs(t.n) + 2

SameNumber(v, t) == t.b = v.b /\ t.n = v.n

\* x is a number a float32 can hold
IsFloat32(x) == x.b = 0 \/ x.n = 0

\* t is the float32 nearest to v
NearestFloat32(v, t) ==
    /\ IsFloat32(t)
    /\ IF IsFloat32(v) THEN SameNumber(v, t) ELSE t.b = 1 /\ t.n = 0

\* what a Submit step does with the float64 values of the properties it
\* comes to: truncated into an integer field, stored in a float field (as
\* it is, or rounded to the field's precision), an error at any other field
SubmitConversions(rounded) ==
    \A k \in 1..last'.at :
        LET p == properties[k]
            f == FieldOf(p)
            v == value[p]
            done == k < last'.at \/ last'.ret = NoError
            wr == {i \in DOMAIN last'.writes : last'.writes[i].prop = p}
        IN  (v.k = "float64" /\ f # Invalid)
              => IF f.k \in IntKinds
                 THEN /\ done /\ wr # {}
                      /\ \A i \in wr : /\ last'.writes[i].loc = f.loc
                                       /\ IsTruncation(v, last'.writes[i].to)
                 ELSE IF f.k \in FloatKinds
                 THEN /\ done /\ wr # {}
                      /\ \A i \in wr :
                            /\ last'.writes[i].loc = f.loc
                            /\ IF rounded /\ f.k = "float32"
                               THEN NearestFloat32(v, last'.writes[i].to)
                               ELSE SameNumber(v, last'.writes[i].to)
                 ELSE /\ k = last'.at
                      /\ last'.ret \in BindingErrors
                      /\ wr = {}
                      /\ dataSource'.mem[f.loc] = dataSource.mem[f.loc]

\* what a Reset step does with a float64-valued property bound to a field
\* that is no number
ResetConversions ==
    \A k \in 1..last'.at :
        LET p == properties[k]
            f == FieldOf(p)
            v == value[p]
        IN  (v.k = "float64" /\ f # Invalid /\ f.k \notin NumericKinds)
              => /\ k = last'.at
                 /\ last'.ret \in BindingErrors
                 /\ value'[p] = v
                 /\ \A i \in DOMAIN last'.calls : last'.calls[i].prop # p

\* C15: Submit stores a float64 value truncated toward zero in an integer
\* field and as it is in a float field, and returns a BindingError, the
\* field unchanged, for a field of any other kind; Reset returns a
\* BindingError without setting a float64-valued property bound to a field
\* that is no number.
C15_FloatConversions ==
    [][/\ last'.op = "Submit" => SubmitConversions(FALSE)
       /\ last'.op = "Reset" => ResetConversions]_vars

\* C15 as amended: the same, with a float32 field storing the float32
\* nearest to the value.
C15_FloatConversionsRounded ==
    [][/\ last'.op = "Submit" => SubmitConversions(TRUE)
       /\ last'.op = "Reset" => ResetConversions]_vars

\* A Submit that stored a value with a fraction in an integer field and a
\* value that is no float32 in a float32 field.
C15_Witness ==
    /\ last.op = "Submit"
    /\ \E i \in DOMAIN last.writes :
          /\ last.writes[i].from.k = "float64" /\ last.writes[i].to.k = "int64"
          /\ last.writes[i].from.n % 2 = 1
    /\ \E i \in DOMAIN last.writes :
          /\ last.writes[i].to.k = "float32"
          /\ ~IsFloat32(last.writes[i].from)

\* p's Source() is a text that is not empty
HasPath(p) == Source(p).k = "string" /\ Source(p).path # ""

\* C16: every registered property has a non-empty textual Source(), and a
\* property without one has no change listener attached.
C16_RegisteredHavePaths ==
    /\ \A i \in DOMAIN properties : HasPath(properties[i])
    /\ \A p \in Props :
          ~HasPath(p) => \A i \in DOMAIN handlers[p] : handlers[p][i] = NoSlot

\* the order in which a control declares its properties
Declared(w) == IF w = "w1" THEN <<"p1", "p2">> ELSE <<"p3", "p4">>

\* the bindable properties of the controls ws[i..], in declaration order
RECURSIVE InDeclaredOrder(_, _)
InDeclaredOrder(ws, i) ==
    IF i > Len(ws) THEN <<>>
    ELSE SelectSeq(Declared(ws[i]), IsTextual) \o InDeclaredOrder(ws, i + 1)

\* C17: SetBoundWidgets appends the bindable properties of each control in
\* the order the control declares them, so the registry order is the same
\* in every run with the same controls.
C17_DeclarationOrder ==
    last.op = "SetBoundWidgets"
        => LET new == InDeclaredOrder(boundWidgets, 1)
           IN  SubSeq(properties, Len(properties) - Len(new) + 1, Len(properties)) = new

\* the properties among the first m of the registry whose value is not nil
HasValue(p) == value[p].k # "nil"
WithValue(m) == SelectSeq(SubSeq(properties, 1, m), HasValue)

\* the value the writes leave in the field at loc, old if there is none
RECURSIVE AfterWrites(_, _, _, _)
AfterWrites(writes, i, loc, old) ==
    IF i > Len(writes) THEN old
    ELSE AfterWrites(writes, i + 1, loc,
                     IF writes[i].loc = loc THEN writes[i].to ELSE old)

\* C18: a Submit that passes the gate goes through the registry in order:
\* it writes the field of every property that has a value, passes over a
\* property whose value is nil, returns the error a property holds as its
\* value, and stops at the first failure; the model then holds the writes
\* made before the failure and nothing else is changed.
C18_SubmitInOrder ==
    [][last'.op = "Submit"
         => LET m == IF last'.ret = NoError THEN last'.at ELSE last'.at - 1
                done == WithValue(IF m < 0 THEN 0 ELSE m)
            IN  /\ (last'.ret = NoError /\ dataSource.root = "ptr")
                      => last'.at = Len(properties)
                /\ Len(last'.writes) = Len(done)
                /\ \A i \in DOMAIN done : last'.writes[i].prop = done[i]
                /\ \A k \in 1..last'.at :
                      value[properties[k]].k = "error"
                          => k = last'.at /\ last'.ret = ErrGet
                /\ \A loc \in Locs :
                      dataSource'.mem[loc]
                          = AfterWrites(last'.writes, 1, loc, dataSource.mem[loc])]_vars

\* A Submit that wrote the fields of two properties and returned the error
\* held by the third.
C18_Witness ==
    /\ last.op = "Submit"
    /\ last.ret = ErrGet
    /\ last.at = 3
    /\ Len(last.writes) = 2
    /\ value[properties[3]].k = "error"
    /\ dataSource.mem[last.writes[1].loc] = last.writes[1].to

\* C19: every control in the ledger is one of the current boundWidgets,
\* and every property recorded under it is a registered property of that
\* control.
C19_LedgerWithinSession ==
    \A w \in DOMAIN widget2Property2Error :
        /\ w \in Range(boundWidgets)
        /\ \A p \in DOMAIN widget2Property2Error[w] :
              p \in Range(properties) /\ Owner(p) = w

\* the controls that declare two or more properties with a validator
TwoValidated == {w \in Widgets : Cardinality({p \in name2Property(w) : HasValidator(p)}) >= 2}

\* C20: when the latest call of PresentError for a control with two or
\* more validated properties carried no error, the control has no entry in
\* the ledger.
C20_PresentedCleanIsClean ==
    \A i \in DOMAIN last.calls :
        (/\ last.calls[i].widget \in TwoValidated
         /\ last.calls[i].presented = 1
         /\ last.calls[i].err = NoError
         /\ \A j \in DOMAIN last.calls :
               j > i => ~(last.calls[j].widget = last.calls[i].widget
                          /\ last.calls[j].presented = 1))
            => last.calls[i].widget \notin DOMAIN widget2Property2Error

====
